---- MODULE Spec2Model ----
(***************************************************************************)
(* Trivia API (backend/flaskr/__init__.py): the question store and the     *)
(* request handlers that list, paginate, search, create and delete         *)
(* questions and that pick a random not-yet-shown quiz question.           *)
(*                                                                         *)
(* Requests are handled one at a time: a handler runs to completion before *)
(* the next request starts.  Every handler is one action, except play_quiz *)
(* whose retry loop is one action per iteration (pc tells where it is).    *)
(*                                                                         *)
(* Three specifications share the handlers:                                *)
(*   Spec      the handlers that write the store (create, delete) with the *)
(*             listing and the search, from an empty store;                *)
(*   PagSpec   the two paginated listings over stores of up to MaxItems    *)
(*             questions, enough for several pages of QUESTIONS_PER_PAGE;  *)
(*   QuizSpec  play_quiz over pre-seeded stores, and FairQuizSpec, the     *)
(*             same with fair random draws.                                *)
(* play_quiz never writes the store and no other handler reads its locals. *)
(*                                                                         *)
(* Not modelled: a request without a JSON body, JSON values of the wrong   *)
(* type inside a well-shaped body, the escape character of LIKE patterns.  *)
(*                                                                         *)
(* models.py (Question, Category, setup_db) is not part of the sources at  *)
(* hand: the store operations insert/delete/format/query are modelled from *)
(* the specification's store interface (sections 3, 5 and 6).              *)
(***************************************************************************)
EXTENDS Integers, Sequences, FiniteSets, TLC

VARIABLES
    store,               \* the Question table, in row order
    next_id,             \* the id the next inserted row gets
    req,                 \* the request being handled, or handled last
    resp,                \* its response (NoResponse while play_quiz runs)
    pc,                  \* "idle", or "loop": play_quiz is at its while loop
    questions,           \* play_quiz's local questions
    previous_questions,  \* play_quiz's local previous_questions
    question,            \* play_quiz's local question
    rng                  \* the random generator's state: the parity of the draws made

vars == <<store, next_id, req, resp, pc, questions, previous_questions, question, rng>>

(***************************************************************************)
(* Bounds of the model.                                                    *)
(***************************************************************************)
\* ids the store hands out in the main specification: 1..MaxId
MaxId == 3
\* longest previous_questions list a quiz request carries
MaxPrev == 2
\* longest search term
MaxTermLen == 2
\* largest ?page= argument
MaxPage == 3
\* largest pre-seeded store of the pagination specification
MaxItems == 21
\* largest pre-seeded store of the quiz specification
MaxSeed == 3

(***************************************************************************)
(* Program constants.                                                      *)
(***************************************************************************)
QUESTIONS_PER_PAGE == 10

(***************************************************************************)
(* Helpers on sequences.                                                   *)
(***************************************************************************)
Min(a, b) == IF a < b THEN a ELSE b

Max(a, b) == IF a > b THEN a ELSE b

Range(s) == {s[i] : i \in 1..Len(s)}

RECURSIVE SeqsUpTo(_, _)
\* all sequences over S of length 0..n
SeqsUpTo(S, n) ==
    IF n = 0 THEN {<<>>}
    ELSE LET shorter == SeqsUpTo(S, n - 1)
         IN  shorter \cup {Append(s, x) : s \in {t \in shorter : Len(t) = n - 1}, x \in S}

\* Python's s[start:end] for integer start and end: a negative index counts
\* from the end, and both are clamped to 0..len(s)
PyIndex(i, n) == IF i < 0 THEN Max(i + n, 0) ELSE Min(i, n)

PySlice(s, start, end) ==
    LET lo == PyIndex(start, Len(s))
        hi == PyIndex(end, Len(s))
    IN  IF hi <= lo THEN <<>> ELSE [i \in 1..(hi - lo) |-> s[lo + i]]

(***************************************************************************)
(* The store (models.py; modelled from the specification).                 *)
(***************************************************************************)
\* the Category table, seeded by an external process, read-only here
Category == <<[id |-> 1, type |-> "Science"], [id |-> 2, type |-> "Art"]>>

CategoryIds == {1, 2}

\* the characters of question texts and search terms
Lower(c) == CASE c = "A" -> "a" [] c = "B" -> "b" [] OTHER -> c

\* the texts a created question may carry
Texts == {<<"A", "b">>, <<"b", "a">>}

\* Question.format(): the dictionary sent to the client
format(q) ==
    [id |-> q.id, question |-> q.question, answer |-> q.answer,
     category |-> q.category, difficulty |-> q.difficulty]

\* [question.format() for question in selection]
format_all(selection) == [i \in 1..Len(selection) |-> format(selection[i])]

\* Question.query.all(): the rows in store order
query_all(s) == s

\* Question.query.order_by(Question.id).all(); the store keeps its rows in
\* the order of their ids (ids are handed out increasing, rows are appended)
query_order_by_id(s) == s

\* Question.query.get(id): the rows with this id (none or one)
query_get(s, id) == SelectSeq(s, LAMBDA q : q.id = id)

\* Question.query.filter_by(category=c).all()
query_filter_by_category(s, c) == SelectSeq(s, LAMBDA q : q.category = c)

\* Category.query.filter_by(id=id).one_or_none()
category_one_or_none(id) == SelectSeq(Category, LAMBDA c : c.id = id)

\* question.delete(): hard removal of the row
store_delete(s, id) == SelectSeq(s, LAMBDA q : q.id # id)

\* question.insert(): the row is appended under a fresh id
store_insert(s, id, text, answer, category, difficulty) ==
    Append(s, [id |-> id, question |-> text, answer |-> answer,
               category |-> category, difficulty |-> difficulty])

Ids(s) == {s[i].id : i \in 1..Len(s)}

(***************************************************************************)
(* paginate_questions                                                      *)
(***************************************************************************)
\* request.args.get('page', 1, type=int): args is <<>> or <<page>>
PageArg(args) == IF args = <<>> THEN 1 ELSE args[1]

\* a faulty variant: the page's offset is one page too far
paginate_questions_off_by_one(args, selection) ==
    LET page == PageArg(args)
        start == page * QUESTIONS_PER_PAGE
        end == start + QUESTIONS_PER_PAGE
        formatted == format_all(selection)
    IN  PySlice(formatted, start, end)

paginate_questions(args, selection) ==
    LET page == PageArg(args)
        start == (page - 1) * QUESTIONS_PER_PAGE
        end == start + QUESTIONS_PER_PAGE
        formatted == format_all(selection)
    IN  PySlice(formatted, start, end)

(***************************************************************************)
(* Responses                                                               *)
(***************************************************************************)
\* errorhandler(404), errorhandler(422), errorhandler(400)
not_found ==
    [status |-> 404,
     body |-> [success |-> FALSE, error |-> 404, message |-> "resource not found"]]

unprocessable ==
    [status |-> 422,
     body |-> [success |-> FALSE, error |-> 422, message |-> "unprocessable"]]

bad_request ==
    [status |-> 400,
     body |-> [success |-> FALSE, error |-> 400, message |-> "bad request"]]

ok(body) == [status |-> 200, body |-> body]

\* no request handled yet
NoRequest == [op |-> "none"]

NoResponse == [status |-> 0]

\* play_quiz's locals outside a call
QuizIdle ==
    /\ pc' = "idle"
    /\ questions' = <<>>
    /\ previous_questions' = <<>>
    /\ question' = <<>>

QuizUntouched == UNCHANGED <<pc, questions, previous_questions, question, rng>>

PageArgs == {<<>>} \cup {<<p>> : p \in 0..MaxPage}

\* the ?page= arguments of the requests to the small store: none, or page 2
ListArgs == {<<>>, <<2>>}

(***************************************************************************)
(* GET /categories                                                         *)
(***************************************************************************)
get_categories ==
    /\ pc = "idle"
    /\ LET selection == Category
           category_dict == [c \in {selection[i].id : i \in 1..Len(selection)} |->
                               (CHOOSE r \in Range(selection) : r.id = c).type]
       IN  /\ req' = [op |-> "get_categories"]
           /\ resp' = ok([success |-> TRUE, categories |-> category_dict])
    /\ UNCHANGED <<store, next_id>>
    /\ QuizUntouched

(***************************************************************************)
(* GET /questions                                                          *)
(***************************************************************************)
get_questions(args) ==
    /\ pc = "idle"
    /\ LET selection == query_all(store)
           current_questions == paginate_questions(args, selection)
           categories_dict == [c \in CategoryIds |->
                                 (CHOOSE r \in Range(Category) : r.id = c).type]
       IN  /\ req' = [op |-> "get_questions", args |-> args]
           /\ resp' = IF Len(current_questions) = 0
                      THEN not_found
                      ELSE ok([success |-> TRUE,
                               total_questions |-> Len(selection),
                               questions |-> current_questions,
                               current_category |-> "None",
                               categories |-> categories_dict])
    /\ UNCHANGED <<store, next_id>>
    /\ QuizUntouched

(***************************************************************************)
(* GET /categories/<id>/questions                                          *)
(***************************************************************************)
get_question_by_category(id, args) ==
    /\ pc = "idle"
    /\ LET category == category_one_or_none(id)
       IN  /\ req' = [op |-> "get_question_by_category", id |-> id, args |-> args]
           /\ resp' = IF category = <<>>
                      THEN not_found   \* category.id raises: except -> abort(404)
                      ELSE LET selection == query_filter_by_category(store, category[1].id)
                               paginated_question == paginate_questions(args, selection)
                           IN  ok([success |-> TRUE,
                                   questions |-> paginated_question,
                                   current_category |-> category[1].type])
    /\ UNCHANGED <<store, next_id>>
    /\ QuizUntouched

(***************************************************************************)
(* DELETE /questions/<question_id>                                         *)
(***************************************************************************)
\* a faulty variant: total_questions is counted before the row is removed
delete_questions_stale_total(question_id, args, commit_ok) ==
    /\ pc = "idle"
    /\ req' = [op |-> "delete_questions", question_id |-> question_id, args |-> args]
    /\ LET question_row == query_get(store, question_id)
       IN  IF question_row = <<>> \/ ~commit_ok
           THEN /\ resp' = unprocessable
                /\ store' = store
           ELSE LET after == store_delete(store, question_id)
                    selection == query_order_by_id(after)
                    current_questions == paginate_questions(args, selection)
                IN  /\ store' = after
                    /\ resp' = ok([success |-> TRUE,
                                   deleted |-> question_id,
                                   questions |-> current_questions,
                                   total_questions |-> Len(store)])
    /\ UNCHANGED next_id
    /\ QuizUntouched

\* a faulty variant: no check that the row exists, the delete of an absent id succeeds
delete_questions_no_check(question_id, args, commit_ok) ==
    /\ pc = "idle"
    /\ req' = [op |-> "delete_questions", question_id |-> question_id, args |-> args]
    /\ IF ~commit_ok
       THEN /\ resp' = unprocessable
            /\ store' = store
       ELSE LET after == store_delete(store, question_id)
                selection == query_order_by_id(after)
                current_questions == paginate_questions(args, selection)
            IN  /\ store' = after
                /\ resp' = ok([success |-> TRUE,
                               deleted |-> question_id,
                               questions |-> current_questions,
                               total_questions |-> Len(query_all(after))])
    /\ UNCHANGED next_id
    /\ QuizUntouched

\* commit_ok: whether the store completes the removal (a store-level failure
\* raises inside the try block and leaves the row untouched)
delete_questions(question_id, args, commit_ok) ==
    /\ pc = "idle"
    /\ req' = [op |-> "delete_questions", question_id |-> question_id, args |-> args]
    /\ LET question_row == query_get(store, question_id)
       IN  IF question_row = <<>> \/ ~commit_ok
           THEN \* abort(404), or the store's exception: except -> abort(422)
                /\ resp' = unprocessable
                /\ store' = store
           ELSE LET after == store_delete(store, question_id)
                    selection == query_order_by_id(after)
                    current_questions == paginate_questions(args, selection)
                IN  /\ store' = after
                    /\ resp' = ok([success |-> TRUE,
                                   deleted |-> question_id,
                                   questions |-> current_questions,
                                   total_questions |-> Len(query_all(after))])
    /\ UNCHANGED next_id
    /\ QuizUntouched

(***************************************************************************)
(* POST /questions                                                         *)
(***************************************************************************)
\* the JSON bodies of a create request: the empty object, or one with the
\* four fields
NewQuestionBodies ==
    {<<>>} \cup
    [question : Texts, answer : {"yes"}, category : CategoryIds, difficulty : {1}]

\* a faulty variant: the empty body is refused only after a row was inserted for it
add_questions_late_check(body, commit_ok) ==
    /\ pc = "idle"
    /\ req' = [op |-> "add_questions", body |-> body]
    /\ next_id <= MaxId
    /\ IF DOMAIN body = {}
       THEN /\ resp' = unprocessable
            /\ store' = store_insert(store, next_id, <<>>, "None", 0, 0)
            /\ next_id' = next_id + 1
       ELSE IF ~commit_ok
       THEN /\ resp' = unprocessable
            /\ UNCHANGED <<store, next_id>>
       ELSE /\ LET after == store_insert(store, next_id, body.question, body.answer,
                                         body.category, body.difficulty)
               IN  /\ store' = after
                   /\ resp' = ok([success |-> TRUE,
                                  created |-> next_id,
                                  total_questions |-> Len(query_all(after))])
            /\ next_id' = next_id + 1
    /\ QuizUntouched

add_questions(body, commit_ok) ==
    /\ pc = "idle"
    /\ req' = [op |-> "add_questions", body |-> body]
    /\ IF DOMAIN body = {}
       THEN \* body == {}: abort(422)
            /\ resp' = unprocessable
            /\ UNCHANGED <<store, next_id>>
       ELSE IF ~commit_ok
       THEN \* question.insert() raises: except -> abort(422)
            /\ resp' = unprocessable
            /\ UNCHANGED <<store, next_id>>
       ELSE /\ next_id <= MaxId
            /\ LET after == store_insert(store, next_id, body.question, body.answer,
                                         body.category, body.difficulty)
               IN  /\ store' = after
                   /\ resp' = ok([success |-> TRUE,
                                  created |-> next_id,
                                  total_questions |-> Len(query_all(after))])
            /\ next_id' = next_id + 1
    /\ QuizUntouched

(***************************************************************************)
(* POST /questions/search                                                  *)
(***************************************************************************)
RECURSIVE Like(_, _)
\* SQL's text LIKE pattern, compared without regard to case (ILIKE): % stands
\* for any run of characters and _ for any one character
Like(pattern, text) ==
    IF pattern = <<>> THEN text = <<>>
    ELSE IF Head(pattern) = "%"
         THEN Like(Tail(pattern), text) \/ (text # <<>> /\ Like(pattern, Tail(text)))
         ELSE /\ text # <<>>
              /\ (Head(pattern) = "_" \/ Lower(Head(pattern)) = Lower(Head(text)))
              /\ Like(Tail(pattern), Tail(text))

\* Question.question.ilike('%' + search_term + '%')
ilike_filter(s, search_term) ==
    SelectSeq(s, LAMBDA q : Like(<<"%">> \o search_term \o <<"%">>, q.question))

TermChars == {"a", "B", "_"}

\* the JSON bodies of a search request: with a searchTerm, or without
SearchBodies == {<<>>} \cup [searchTerm : SeqsUpTo(TermChars, MaxTermLen)]

search_questions(body) ==
    /\ pc = "idle"
    /\ req' = [op |-> "search_questions", body |-> body]
    /\ resp' =
         IF "searchTerm" \notin DOMAIN body
         THEN not_found   \* len(None) raises: except -> abort(404)
         ELSE LET search_term == body.searchTerm
              IN  IF Len(search_term) # 0
                  THEN LET search_results == ilike_filter(store, search_term)
                       IN  IF Len(search_results) = 0
                           THEN not_found   \* abort(404): except -> abort(404)
                           ELSE ok([success |-> TRUE,
                                    questions |-> format_all(search_results),
                                    total_questions |-> Len(search_results),
                                    current_category |-> "None"])
                  ELSE not_found   \* search_results is unbound: except -> abort(404)
    /\ UNCHANGED <<store, next_id>>
    /\ QuizUntouched

(***************************************************************************)
(* POST /quizzez                                                           *)
(***************************************************************************)
\* quiz_category as sent: a mapping with an id, a mapping without, a list
QuizCategories == [kind : {"dict"}, id : 0..3]

BadQuizCategories == {[kind |-> "dict"], [kind |-> "list"]}

PreviousLists == SeqsUpTo(1..MaxSeed, MaxPrev)

\* the JSON bodies of a quiz request: either key may be missing
QuizBodies ==
    {<<>>, [quiz_category |-> [kind |-> "dict", id |-> 0]], [previous_questions |-> <<>>]}
    \cup [quiz_category : BadQuizCategories, previous_questions : {<<>>, <<1>>}]
    \cup [quiz_category : QuizCategories, previous_questions : PreviousLists]

\* category['id'] raises for a list and for a mapping without the key
HasId(category) == category.kind = "dict" /\ "id" \in DOMAIN category

\* the questions the quiz draws from
quiz_questions(s, category) ==
    IF category.id = 0 THEN query_all(s) ELSE query_filter_by_category(s, category.id)

\* a faulty variant: the loop over previous_questions returns after its first element
check_if_shownbefore_first_only(previous, q) == Len(previous) > 0 /\ previous[1] = q.id

\* the loop over previous_questions: it runs to its end, with no early exit
check_if_shownbefore(previous, q) == \E i \in 1..Len(previous) : previous[i] = q.id

\* a faulty variant: an empty pool is answered as an exhausted one
quiz_early_response_empty_ok(body, s) ==
    IF ~({"quiz_category", "previous_questions"} \subseteq DOMAIN body)
    THEN <<bad_request>>
    ELSE IF ~HasId(body.quiz_category)
    THEN <<bad_request>>
    ELSE IF Len(quiz_questions(s, body.quiz_category)) = 0
    THEN <<ok([success |-> TRUE])>>
    ELSE <<>>

\* what the try block raises before the first question is drawn, as the
\* response the except clause turns it into: <<>> when nothing is raised
quiz_early_response(body, s) ==
    IF ~({"quiz_category", "previous_questions"} \subseteq DOMAIN body)
    THEN <<bad_request>>     \* abort(400): except -> abort(400)
    ELSE IF ~HasId(body.quiz_category)
    THEN <<bad_request>>     \* category['id'] raises
    ELSE IF Len(quiz_questions(s, body.quiz_category)) = 0
    THEN <<bad_request>>     \* random.randrange(0, 0, 1) raises
    ELSE <<>>

\* get_random_question(): the generator moves on
Draw == rng' = 1 - rng

\* from the start of the try block to the first get_random_question()
play_quiz_start(body) ==
    /\ pc = "idle"
    /\ req' = [op |-> "play_quiz", body |-> body]
    /\ UNCHANGED <<store, next_id>>
    /\ LET early == quiz_early_response(body, store)
       IN  IF early # <<>>
           THEN resp' = early[1] /\ QuizIdle /\ UNCHANGED rng
           ELSE LET pool == quiz_questions(store, body.quiz_category)
                IN  \E i \in 1..Len(pool) :
                        /\ question' = pool[i]
                        /\ Draw
                        /\ questions' = pool
                        /\ previous_questions' = body.previous_questions
                        /\ pc' = "loop"
                        /\ resp' = NoResponse

\* one iteration of the while loop: the draw is questions[i]
play_quiz_redraw(i) ==
    /\ pc = "loop"
    /\ i \in 1..Len(questions)
    /\ check_if_shownbefore(previous_questions, question)
    /\ UNCHANGED <<store, next_id, req>>
    /\ Draw
    /\ IF Len(previous_questions) = Len(questions)
       THEN resp' = ok([success |-> TRUE]) /\ QuizIdle
       ELSE /\ question' = questions[i]
            /\ UNCHANGED <<resp, pc, questions, previous_questions>>

\* the loop condition is false: the question is returned
play_quiz_return ==
    /\ pc = "loop"
    /\ ~check_if_shownbefore(previous_questions, question)
    /\ UNCHANGED <<store, next_id, req, rng>>
    /\ resp' = ok([success |-> TRUE, question |-> format(question)])
    /\ QuizIdle

(***************************************************************************)
(* The handlers that write the store, with the listing and the search that *)
(* read it back: an empty store, then one request after another.           *)
(***************************************************************************)
Init ==
    /\ store = <<>>
    /\ next_id = 1
    /\ req = NoRequest
    /\ resp = NoResponse
    /\ pc = "idle"
    /\ questions = <<>>
    /\ previous_questions = <<>>
    /\ question = <<>>
    /\ rng = 0

Next ==
    \/ get_categories
    \/ \E args \in ListArgs : get_questions(args)
    \/ \E id \in 1..MaxId, args \in ListArgs, commit_ok \in BOOLEAN :
          delete_questions(id, args, commit_ok)
    \/ \E body \in NewQuestionBodies, commit_ok \in BOOLEAN : add_questions(body, commit_ok)
    \/ \E body \in SearchBodies : search_questions(body)

Spec == Init /\ [][Next]_vars

\* a pre-seeded store of n questions
SeedQuestion(i) ==
    [id |-> i,
     question |-> IF i % 3 = 0 THEN <<"b", "a">> ELSE <<"A", "b">>,
     answer |-> "yes",
     category |-> (i % 2) + 1,
     difficulty |-> 1]

SeedStore(n) == [i \in 1..n |-> SeedQuestion(i)]

PagInit ==
    /\ \E n \in 0..MaxItems : store = SeedStore(n) /\ next_id = n + 1
    /\ req = NoRequest
    /\ resp = NoResponse
    /\ pc = "idle"
    /\ questions = <<>>
    /\ previous_questions = <<>>
    /\ question = <<>>
    /\ rng = 0

PagNext ==
    \/ \E args \in PageArgs : get_questions(args)
    \/ \E id \in 0..3, args \in PageArgs : get_question_by_category(id, args)

PagSpec == PagInit /\ [][PagNext]_vars

(***************************************************************************)
(* The quiz over a pre-seeded store.                                       *)
(***************************************************************************)
QuizInit ==
    /\ \E n \in 0..MaxSeed : store = SeedStore(n) /\ next_id = n + 1
    /\ req = NoRequest
    /\ resp = NoResponse
    /\ pc = "idle"
    /\ questions = <<>>
    /\ previous_questions = <<>>
    /\ question = <<>>
    /\ rng = 0

QuizNext ==
    \/ \E body \in QuizBodies : play_quiz_start(body)
    \/ \E i \in 1..MaxSeed : play_quiz_redraw(i)
    \/ play_quiz_return

QuizSpec == QuizInit /\ [][QuizNext]_vars

\* the random draws are fair: a draw that stays possible is made in the end
QuizFairness ==
    /\ WF_vars(play_quiz_return)
    /\ \A i \in 1..MaxSeed : SF_vars(play_quiz_redraw(i))

FairQuizSpec == QuizSpec /\ QuizFairness

(***************************************************************************)
(* Properties of play_quiz (QuizSpec, FairQuizSpec).                       *)
(***************************************************************************)
\* the quiz request last made is well-formed: both keys, and a category id
QuizRequested ==
    /\ req.op = "play_quiz"
    /\ {"quiz_category", "previous_questions"} \subseteq DOMAIN req.body
    /\ req.body.quiz_category.kind = "dict"
    /\ "id" \in DOMAIN req.body.quiz_category

\* the stored questions the request's category admits
CandidatePool ==
    LET category_id == req.body.quiz_category.id
    IN  {store[i] : i \in {j \in 1..Len(store) :
                              category_id = 0 \/ store[j].category = category_id}}

PreviousIds == Range(req.body.previous_questions)

QuizFound == resp.status = 200 /\ "question" \in DOMAIN resp.body

QuizExhausted == resp = ok([success |-> TRUE])

\* C1: a question play_quiz returns is a question of the candidate pool (any
\* stored question for category 0, else one of that category) and its id is
\* not among previous_questions.
C1_ReturnedQuestionIsUnseenCandidate ==
    (req.op = "play_quiz" /\ QuizFound) =>
        /\ QuizRequested
        /\ \E q \in CandidatePool : resp.body.question = format(q)
        /\ resp.body.question.id \notin PreviousIds

\* a question was returned under a category filter, past a non-empty history
C1_Witness ==
    /\ req.op = "play_quiz"
    /\ QuizFound
    /\ req.body.quiz_category.id # 0
    /\ req.body.previous_questions # <<>>
    /\ Cardinality(CandidatePool) < Len(store)

\* C2: with a non-empty pool and previous_questions a strict subset of the
\* pool's ids, the call never ends EXHAUSTED (and ends FOUND).
C2_StrictSubsetNeverExhausted ==
    ( /\ QuizRequested
      /\ CandidatePool # {}
      /\ PreviousIds \subseteq {q.id : q \in CandidatePool}
      /\ PreviousIds # {q.id : q \in CandidatePool}
      /\ pc = "idle" )
    => QuizFound

\* C3: with a non-empty pool all of whose ids are in previous_questions, the
\* call ends EXHAUSTED: the success response without a question.
C3_CoveredPoolEndsExhausted ==
    ( /\ pc = "loop"
      /\ Ids(questions) \subseteq Range(previous_questions) )
    ~> (pc = "idle" /\ QuizExhausted)

\* the request cannot enter sampling
CannotSample ==
    \/ ~({"quiz_category", "previous_questions"} \subseteq DOMAIN req.body)
    \/ req.body.quiz_category.kind # "dict"
    \/ "id" \notin DOMAIN req.body.quiz_category
    \/ CandidatePool = {}

\* C10: a quiz request with a key missing, with a quiz_category that is no
\* mapping with an id, or with an empty candidate pool ends with the 400
\* error: no question, no EXHAUSTED response, and the handler is done.
C10_NoSamplingIsBadRequest ==
    (req.op = "play_quiz" /\ CannotSample) => (resp = bad_request /\ pc = "idle")

\* the pool of an existing category is empty while the store is not
C10_Witness ==
    /\ QuizRequested
    /\ req.body.quiz_category.id # 0
    /\ store # <<>>
    /\ CandidatePool = {}
    /\ resp = bad_request

(***************************************************************************)
(* Properties of the paginated listings (PagSpec).                         *)
(***************************************************************************)
\* the page the claim describes: the items from offset (p-1)*S on, at most S
ExpectedPage(items, p) ==
    LET off == (p - 1) * QUESTIONS_PER_PAGE
        k == Min(QUESTIONS_PER_PAGE, Max(0, Len(items) - off))
    IN  [i \in 1..k |-> items[off + i]]

RECURSIVE ConcatPages(_, _, _)
\* pages from..to of selection, one after the other
ConcatPages(selection, from, to) ==
    IF from > to THEN <<>>
    ELSE paginate_questions(<<from>>, selection) \o ConcatPages(selection, from + 1, to)

\* the rows of the store in CategoryIds' category c, by an index walk
RowsOfCategory(c) ==
    LET idx == {i \in 1..Len(store) : store[i].category = c}
        nth(k) == CHOOSE i \in idx : Cardinality({j \in idx : j < i}) = k - 1
    IN  [k \in 1..Cardinality(idx) |-> store[nth(k)]]

\* C4: for a positive page p, paginate_questions returns the items at offsets
\* (p-1)*10 .. of length min(10, max(0, len - (p-1)*10)), and the pages
\* 1..ceil(len/10) one after the other are the items.
C4_PagesAreContiguousSlices ==
    LET all == [i \in 1..Len(store) |-> format(store[i])]
        pages == (Len(store) + QUESTIONS_PER_PAGE - 1) \div QUESTIONS_PER_PAGE
    IN  /\ (req.op = "get_questions" /\ PageArg(req.args) >= 1) =>
              LET page == ExpectedPage(all, PageArg(req.args))
              IN  IF page = <<>> THEN resp = not_found
                  ELSE resp.status = 200 /\ resp.body.questions = page
        /\ ( /\ req.op = "get_question_by_category"
             /\ req.id \in CategoryIds
             /\ PageArg(req.args) >= 1 ) =>
              LET rows == RowsOfCategory(req.id)
                  items == [i \in 1..Len(rows) |-> format(rows[i])]
              IN  /\ resp.status = 200
                  /\ resp.body.questions = ExpectedPage(items, PageArg(req.args))
                  /\ Len(resp.body.questions) =
                        Min(QUESTIONS_PER_PAGE,
                            Max(0, Len(items) - (PageArg(req.args) - 1) * QUESTIONS_PER_PAGE))
        /\ ConcatPages(store, 1, pages) = all

\* 12 questions, page 2: the two last ones
C4_Witness ==
    /\ req.op = "get_questions"
    /\ req.args = <<2>>
    /\ Len(store) = 12
    /\ resp.status = 200
    /\ resp.body.questions = <<format(store[11]), format(store[12])>>

\* C8: a listing (all questions, or the questions of a category) answers
\* NotFound when the requested page holds no question, and success only with
\* a non-empty page.
C8_EmptyPageIsNotFound ==
    (req.op \in {"get_questions", "get_question_by_category"} /\ resp.status = 200)
        => resp.body.questions # <<>>

(***************************************************************************)
(* Properties of the store handlers (Spec).                                *)
(***************************************************************************)
\* Every step of Spec is one handler's run, of the request req'.

\* C5: a successful delete of a stored id removes exactly that question: it
\* is gone from the store, every other question is still there, unchanged
\* and in order, and total_questions is the count before minus one.
C5_DeleteRemovesExactlyThatQuestion ==
    [][( /\ req'.op = "delete_questions"
         /\ req'.question_id \in Ids(store)
         /\ resp'.status = 200 ) =>
            LET id == req'.question_id
            IN  /\ id \notin Ids(store')
                /\ query_get(store', id) = <<>>
                /\ \A i \in 1..Len(store) : store[i].id # id => store[i] \in Range(store')
                /\ Range(store') \subseteq Range(store)
                /\ Len(store') = Len(store) - 1
                /\ \A i, j \in 1..Len(store') : i < j => store'[i].id < store'[j].id
                /\ resp'.body.deleted = id
                /\ resp'.body.total_questions = Len(store) - 1
                /\ \A i \in 1..Len(resp'.body.questions) :
                      resp'.body.questions[i].id # id]_vars

\* a delete succeeded and left other questions behind
C5_Witness ==
    /\ req.op = "delete_questions"
    /\ resp.status = 200
    /\ req.question_id \notin Ids(store)
    /\ Len(store) >= 2
    /\ resp.body.total_questions = Len(store)
    /\ resp.body.questions # <<>>

\* C6: a delete of an id that is not stored answers 404 or 422, never
\* success, and leaves the store as it was.
C6_DeleteOfMissingIdFails ==
    [][(req'.op = "delete_questions" /\ req'.question_id \notin Ids(store)) =>
            /\ resp'.status \in {404, 422}
            /\ store' = store]_vars

\* a delete of an absent id was refused while the store holds questions
C6_Witness ==
    /\ req.op = "delete_questions"
    /\ req.question_id \notin Ids(store)
    /\ resp = unprocessable
    /\ store # <<>>

\* term occurs in text, letter case aside
Contains(text, term) ==
    \E off \in 0..(Len(text) - Len(term)) :
        \A i \in 1..Len(term) : Lower(text[off + i]) = Lower(term[i])

\* C7: a search with a non-empty term succeeds exactly when some stored text
\* contains the term (case-insensitively), and then returns those questions,
\* all of them and no others, in store order, with their count; with no
\* match, or an empty term, the answer is NotFound.
C7_SearchIsSubstringMatch ==
    (req.op = "search_questions" /\ "searchTerm" \in DOMAIN req.body) =>
        LET term == req.body.searchTerm
            idx == {i \in 1..Len(store) : Contains(store[i].question, term)}
            nth(k) == CHOOSE i \in idx : Cardinality({j \in idx : j < i}) = k - 1
            matches == [k \in 1..Cardinality(idx) |-> format(store[nth(k)])]
        IN  IF term # <<>> /\ idx # {}
            THEN /\ resp.status = 200
                 /\ resp.body.questions = matches
                 /\ resp.body.total_questions = Cardinality(idx)
            ELSE resp = not_found

\* C9: a create request that fails leaves the store unchanged, and the one
\* with an empty body fails with 422.
C9_FailedCreateLeavesStore ==
    [][req'.op = "add_questions" =>
            /\ resp'.status # 200 => (store' = store /\ Len(store') = Len(store))
            /\ DOMAIN req'.body = {} => resp' = unprocessable]_vars

\* an empty create request was refused while the store holds questions
C9_Witness ==
    /\ req.op = "add_questions"
    /\ DOMAIN req.body = {}
    /\ resp = unprocessable
    /\ store # <<>>

====
